---- MODULE Spec2Model ----
(***************************************************************************)
(* Vocabulary retrieval of SkyHigh-backend: app/utils/vectordb.py.         *)
(* fetch_vocab_from_vector_db is called from a synchronous FastAPI route   *)
(* (app/generate.py -> app/utils/prompts.py), so calls run on the server's *)
(* thread pool and share the module global _model.                         *)
(*                                                                         *)
(* Strings whose characters matter (levels, table names) are sequences of  *)
(* one-character strings, so that concatenation and lower() are computed.  *)
(***************************************************************************)
EXTENDS Integers, Sequences, FiniteSets, TLC

\* ------------------------------------------------------------- bounds
NumThreads == 2
MaxN == 2
MaxTables == 2

Threads == 1..NumThreads

\* ------------------------------------------------------------ strings
Range(s) == {s[i] : i \in 1..Len(s)}

Min(a, b) == IF a <= b THEN a ELSE b

SeqsUpTo(S, k) == UNION {[1..m -> S] : m \in 0..k}

\* str.lower() on one character (the letters that occur in the names)
LowerChar(c) ==
    CASE c = "A" -> "a" [] c = "B" -> "b" [] c = "C" -> "c"
      [] c = "I" -> "i" [] c = "L" -> "l" [] c = "M" -> "m"
      [] c = "N" -> "n" [] OTHER -> c

\* str.lower()
Lower(s) == [i \in 1..Len(s) |-> LowerChar(s[i])]

A1 == <<"A", "1">>
A2 == <<"A", "2">>
B1 == <<"B", "1">>
B2 == <<"B", "2">>

\* the set literal of the level check
ValidLevels == {A1, A2, B1, B2}

\* level arguments tried by callers: two accepted ones and two others
LevelInputs == {A1, B1, <<"a", "1">>, <<"C", "1">>}

Queries == {"Essen"}

\* "_MINIMAL_vocabulary"
Suffix ==
    <<"_", "M", "I", "N", "I", "M", "A", "L", "_",
      "v", "o", "c", "a", "b", "u", "l", "a", "r", "y">>

\* dbName = level + "_MINIMAL_vocabulary"
DbNameOf(level) == level \o Suffix

\* the loader's convention: "records_a1_minimal.json" -> "a1_minimal.csv"
CsvNameOf(level) ==
    Lower(level) \o <<"_", "m", "i", "n", "i", "m", "a", "l", ".", "c", "s", "v">>

DotLance == <<".", "l", "a", "n", "c", "e">>

\* db_path
DbPath == "app/utils/lancedb_data"

NoName == <<>>

\* ------------------------------------------------------------ backend
\* Names the connection's listing may report: the canonical name of A1, two
\* spellings of it that differ in case only, and the loader's name.
ListedNames ==
    { DbNameOf(A1), Lower(DbNameOf(A1)), <<"a", "1">> \o Suffix, CsvNameOf(A1) }

\* Names a table may be stored under.
NameUniverse == ListedNames \cup {DbNameOf(B1)}

Listings ==
    {[api |-> "none", names |-> <<>>], [api |-> "raises", names |-> <<>>]}
    \cup [api : {"table_names", "list_tables"}, names : SeqsUpTo(ListedNames, MaxTables)]

Stores ==
    {{}} \cup {{x} : x \in NameUniverse} \cup {{DbNameOf(A1), DbNameOf(B1)}}

\* The storage as the process finds it: whether db_path exists, what the
\* connection's listing method reports, and which names open_table opens.
Backends ==
    {[exists |-> FALSE, api |-> "none", names |-> <<>>, openable |-> {}]}
    \cup {[exists |-> TRUE, api |-> l.api, names |-> l.names, openable |-> s] :
            l \in Listings, s \in Stores}

\* A few storages for the runs in which calls overlap: a healthy one, one
\* whose listing and tables disagree, and one that reports no names.
SampleBackends ==
    { [exists |-> TRUE, api |-> "table_names", names |-> <<DbNameOf(A1)>>,
       openable |-> {DbNameOf(A1), DbNameOf(B1)}],
      [exists |-> TRUE, api |-> "list_tables", names |-> <<Lower(DbNameOf(A1))>>,
       openable |-> {}],
      [exists |-> FALSE, api |-> "none", names |-> <<>>, openable |-> {}] }

\* ------------------------------------------------------ search results
NoneValue == "None"

CellValues == {"Brot", "Bus", NoneValue}

StdColumns == <<"german_term", "english_translation">>
AltColumns == <<"term">>

StdRows == {[german_term |-> g, english_translation |-> "x"] : g \in CellValues}
AltRows == {[term |-> "Brot"]}

EmptyFrame == [columns |-> <<>>, rows |-> <<>>]

\* what table.search(v).limit(n).to_pandas() can return: at most n rows, in
\* ascending distance order (position is rank)
SearchResults(n) ==
    [columns : {StdColumns}, rows : SeqsUpTo(StdRows, n)]
    \cup [columns : {AltColumns}, rows : SeqsUpTo(AltRows, Min(n, 1))]

\* ------------------------------------------------------ pure helpers
\* (variant) the level check left out
IsValidLevel_NoCheck(level) == TRUE

\* the level check of fetch_vocab_from_vector_db
IsValidLevel(level) == level \in ValidLevels

\* available_tables: the names of the *.lance directories under db_path
DirScan(db) == {nm \o DotLance : nm \in db.openable}

\* lancedb_table_names after the try block: table_names() if the connection
\* has it, else list_tables() if it has that, else (or on an exception) []
ListTableNames(db) ==
    CASE db.api = "table_names" -> db.names
      [] db.api = "list_tables" -> db.names
      [] OTHER -> <<>>

\* (variant) the loop without its break: the last such name wins
FirstCaseInsensitive_NoBreak(dbName, names) ==
    LET hits == {i \in 1..Len(names) : Lower(names[i]) = Lower(dbName)}
    IN  IF hits = {} THEN NoName
        ELSE names[CHOOSE i \in hits : \A j \in hits : i >= j]

\* the for loop with break: the first listed name equal to dbName ignoring case
FirstCaseInsensitive(dbName, names) ==
    LET hits == {i \in 1..Len(names) : Lower(names[i]) = Lower(dbName)}
    IN  IF hits = {} THEN NoName
        ELSE names[CHOOSE i \in hits : \A j \in hits : i <= j]

\* table_name_to_use
SelectTableName(dbName, names) ==
    LET found ==
          IF names # <<>>
          THEN IF dbName \in Range(names) THEN dbName
               ELSE FirstCaseInsensitive(dbName, names)
          ELSE NoName
    IN  IF found = NoName THEN dbName ELSE found

\* (variant) the fallback tried after any failed open
ShouldRetry_Always(names, table_name_to_use) == TRUE

\* the condition guarding the fallback open
ShouldRetry(names, table_name_to_use) ==
    names # <<>> /\ table_name_to_use \in Range(names)

\* results[['german_term', 'english_translation']]: the frame restricted to
\* the two columns; selecting a column the frame lacks raises KeyError
HasColumns(df, cols) == \A i \in 1..Len(cols) : cols[i] \in Range(df.columns)

Project(df, cols) ==
    [columns |-> cols,
     rows |-> [i \in 1..Len(df.rows) |->
                 [c \in Range(cols) |-> df.rows[i][c]]]]

VocabColumns == <<"word", "vocab", "text", "term", "vocabulary">>

\* (variant) the fallback taking the last column instead of the first
VocabColumn_Last(df) ==
    LET hits == {i \in 1..Len(VocabColumns) : VocabColumns[i] \in Range(df.columns)}
    IN  IF hits = {} THEN df.columns[Len(df.columns)]
        ELSE VocabColumns[CHOOSE i \in hits : \A j \in hits : i <= j]

\* the vocab_column loop, falling back to the first column (iloc[:, 0])
VocabColumn(df) ==
    LET hits == {i \in 1..Len(VocabColumns) : VocabColumns[i] \in Range(df.columns)}
    IN  IF hits = {} THEN df.columns[1]
        ELSE VocabColumns[CHOOSE i \in hits : \A j \in hits : i <= j]

\* Series.head(n).tolist()
Head_n(col, n) == SubSeq(col, 1, Min(n, Len(col)))

\* the tail of fetch_vocab_from_vector_db: the returned list
Extract(df, n) ==
    IF df.rows # <<>>
    THEN LET c == VocabColumn(df)
         IN  Head_n([i \in 1..Len(df.rows) |-> df.rows[i][c]], n)
    ELSE <<>>

\* ------------------------------------------------------------- values
NoError ==
    [type |-> "", what |-> "", tried |-> <<>>, available_tables |-> {},
     api_tables |-> <<>>, db_path |-> ""]

ValueError == [NoError EXCEPT !.type = "ValueError", !.what = "level"]

DirNotFound ==
    [NoError EXCEPT !.type = "FileNotFoundError", !.what = "directory",
                    !.db_path = DbPath]

\* (variant) the message without the names the API reported
TableNotFound_NoApiTables(l) ==
    [type |-> "FileNotFoundError", what |-> "table",
     tried |-> <<l.table_name_to_use, l.dbName, l.dbName \o DotLance>>,
     available_tables |-> l.available_tables,
     api_tables |-> <<>>,
     db_path |-> DbPath]

\* the message assembled from error_msg_parts
TableNotFound(l) ==
    [type |-> "FileNotFoundError", what |-> "table",
     tried |-> <<l.table_name_to_use, l.dbName, l.dbName \o DotLance>>,
     available_tables |-> l.available_tables,
     api_tables |-> l.lancedb_table_names,
     db_path |-> DbPath]

KeyError == [NoError EXCEPT !.type = "KeyError", !.what = "column"]

NoReturn == [status |-> "none", value |-> <<>>, error |-> NoError]
Returned(v) == [status |-> "ok", value |-> v, error |-> NoError]
Raised(e) == [status |-> "raised", value |-> <<>>, error |-> e]

NoArgs == [query |-> "", level |-> <<>>, n |-> 0]

NoLocals ==
    [dbName |-> NoName, available_tables |-> {}, lancedb_table_names |-> <<>>,
     table_name_to_use |-> NoName, table |-> NoName, last_error |-> NoName,
     model |-> 0, results |-> EmptyFrame]

\* what one call has done to the outside so far
NoIO == [connects |-> 0, enums |-> 0, opens |-> <<>>, loads |-> 0, searches |-> 0]

\* -------------------------------------------------------------- state
VARIABLES
    db,             \* the storage under db_path (read-only for this code)
    model_slot,     \* the module global _model: 0 is None, k the k-th instance
    constructions,  \* SentenceTransformer(...) calls that returned an instance
    served,         \* levels for which a call has returned a list
    pc,             \* per thread: where its call stands
    args,           \* per thread: query, level, n
    loc,            \* per thread: the call's local variables
    io,             \* per thread: the I/O its current call has performed
    ret             \* per thread: the call's outcome

vars == <<db, model_slot, constructions, served, pc, args, loc, io, ret>>

Start(backends) ==
    /\ db \in backends
    /\ model_slot = 0
    /\ constructions = 0
    /\ served = {}
    /\ pc = [t \in Threads |-> "idle"]
    /\ args = [t \in Threads |-> NoArgs]
    /\ loc = [t \in Threads |-> NoLocals]
    /\ io = [t \in Threads |-> NoIO]
    /\ ret = [t \in Threads |-> NoReturn]

Init == Start(SampleBackends)

SeqInit == Start(Backends)

\* ------------------------------------------------------------ actions
\* entry and level check
FetchBegin(t, query, level, n) ==
    /\ pc[t] = "idle"
    /\ args' = [args EXCEPT ![t] = [query |-> query, level |-> level, n |-> n]]
    /\ IF ~IsValidLevel(level)
       THEN /\ ret' = [ret EXCEPT ![t] = Raised(ValueError)]
            /\ pc' = [pc EXCEPT ![t] = "done"]
            /\ UNCHANGED loc
       ELSE /\ loc' = [loc EXCEPT ![t].dbName = DbNameOf(level)]
            /\ pc' = [pc EXCEPT ![t] = "check_dir"]
            /\ UNCHANGED ret
    /\ UNCHANGED <<db, model_slot, constructions, served, io>>

\* db_path_obj.exists() and the directory scan
CheckDir(t) ==
    /\ pc[t] = "check_dir"
    /\ IF ~db.exists
       THEN /\ ret' = [ret EXCEPT ![t] = Raised(DirNotFound)]
            /\ pc' = [pc EXCEPT ![t] = "done"]
            /\ UNCHANGED loc
       ELSE /\ loc' = [loc EXCEPT ![t].available_tables = DirScan(db)]
            /\ pc' = [pc EXCEPT ![t] = "connect"]
            /\ UNCHANGED ret
    /\ UNCHANGED <<db, model_slot, constructions, served, args, io>>

\* db = connect(db_path)
Connect(t) ==
    /\ pc[t] = "connect"
    /\ io' = [io EXCEPT ![t].connects = @ + 1]
    /\ pc' = [pc EXCEPT ![t] = "list_tables"]
    /\ UNCHANGED <<db, model_slot, constructions, served, args, loc, ret>>

\* table enumeration and the choice of table_name_to_use
ListTables(t) ==
    /\ pc[t] = "list_tables"
    /\ LET names == ListTableNames(db)
       IN  loc' = [loc EXCEPT
                     ![t].lancedb_table_names = names,
                     ![t].table_name_to_use = SelectTableName(loc[t].dbName, names)]
    /\ io' = [io EXCEPT ![t].enums = IF db.api = "none" THEN @ ELSE @ + 1]
    /\ pc' = [pc EXCEPT ![t] = "open_table"]
    /\ UNCHANGED <<db, model_slot, constructions, served, args, ret>>

\* the first db.open_table and its except clause
OpenTable(t) ==
    /\ pc[t] = "open_table"
    /\ LET name == loc[t].table_name_to_use
       IN  /\ io' = [io EXCEPT ![t].opens = Append(@, name)]
           /\ IF name \in db.openable
              THEN /\ loc' = [loc EXCEPT ![t].table = name]
                   /\ pc' = [pc EXCEPT ![t] = "get_model"]
              ELSE /\ loc' = [loc EXCEPT ![t].last_error = name]
                   /\ pc' = [pc EXCEPT ![t] =
                               IF ShouldRetry(loc[t].lancedb_table_names, name)
                               THEN "open_fallback" ELSE "not_found"]
    /\ UNCHANGED <<db, model_slot, constructions, served, args, ret>>

\* the fallback db.open_table(dbName)
OpenFallback(t) ==
    /\ pc[t] = "open_fallback"
    /\ LET name == loc[t].dbName
       IN  /\ io' = [io EXCEPT ![t].opens = Append(@, name)]
           /\ IF name \in db.openable
              THEN /\ loc' = [loc EXCEPT ![t].table = name, ![t].last_error = NoName]
                   /\ pc' = [pc EXCEPT ![t] = "get_model"]
              ELSE /\ loc' = [loc EXCEPT ![t].last_error = name]
                   /\ pc' = [pc EXCEPT ![t] = "not_found"]
    /\ UNCHANGED <<db, model_slot, constructions, served, args, ret>>

\* (variant) the "table is None" test left out: the call goes on to the model
RaiseNotFound_Skipped(t) ==
    /\ pc[t] = "not_found"
    /\ pc' = [pc EXCEPT ![t] = "get_model"]
    /\ UNCHANGED <<db, model_slot, constructions, served, args, loc, io, ret>>

\* table is None: the diagnostic FileNotFoundError
RaiseNotFound(t) ==
    /\ pc[t] = "not_found"
    /\ ret' = [ret EXCEPT ![t] = Raised(TableNotFound(loc[t]))]
    /\ pc' = [pc EXCEPT ![t] = "done"]
    /\ UNCHANGED <<db, model_slot, constructions, served, args, loc, io>>

\* (variant) _get_model without the cache test: every call loads
GetModelCheck_NoCache(t) ==
    /\ pc[t] = "get_model"
    /\ pc' = [pc EXCEPT ![t] = "load_model"]
    /\ UNCHANGED <<db, model_slot, constructions, served, args, loc, io, ret>>

\* _get_model: the test "_model is None"
GetModelCheck(t) ==
    /\ pc[t] = "get_model"
    /\ pc' = [pc EXCEPT ![t] = IF model_slot = 0 THEN "load_model" ELSE "model_return"]
    /\ UNCHANGED <<db, model_slot, constructions, served, args, loc, io, ret>>

\* _get_model: _model = SentenceTransformer('all-MiniLM-L6-v2')
LoadModel(t) ==
    /\ pc[t] = "load_model"
    /\ constructions' = constructions + 1
    /\ model_slot' = constructions + 1
    /\ io' = [io EXCEPT ![t].loads = @ + 1]
    /\ pc' = [pc EXCEPT ![t] = "model_return"]
    /\ UNCHANGED <<db, served, args, loc, ret>>

\* _get_model: return _model
GetModelReturn(t) ==
    /\ pc[t] = "model_return"
    /\ loc' = [loc EXCEPT ![t].model = model_slot]
    /\ pc' = [pc EXCEPT ![t] = "search"]
    /\ UNCHANGED <<db, model_slot, constructions, served, args, io, ret>>

\* encode, search, column selection and extraction
Search(t, found) ==
    /\ pc[t] = "search"
    /\ io' = [io EXCEPT ![t].searches = @ + 1]
    /\ IF HasColumns(found, StdColumns)
       THEN LET results == Project(found, StdColumns)
            IN  /\ loc' = [loc EXCEPT ![t].results = results]
                /\ ret' = [ret EXCEPT ![t] = Returned(Extract(results, args[t].n))]
                /\ served' = served \cup {args[t].level}
       ELSE /\ loc' = [loc EXCEPT ![t].results = found]
            /\ ret' = [ret EXCEPT ![t] = Raised(KeyError)]
            /\ UNCHANGED served
    /\ pc' = [pc EXCEPT ![t] = "done"]
    /\ UNCHANGED <<db, model_slot, constructions, args>>

\* the caller has taken the outcome; the frame is gone
Return(t) ==
    /\ pc[t] = "done"
    /\ pc' = [pc EXCEPT ![t] = "idle"]
    /\ args' = [args EXCEPT ![t] = NoArgs]
    /\ loc' = [loc EXCEPT ![t] = NoLocals]
    /\ io' = [io EXCEPT ![t] = NoIO]
    /\ ret' = [ret EXCEPT ![t] = NoReturn]
    /\ UNCHANGED <<db, model_slot, constructions, served>>

Step(t) ==
    \/ CheckDir(t)
    \/ Connect(t)
    \/ ListTables(t)
    \/ OpenTable(t)
    \/ OpenFallback(t)
    \/ RaiseNotFound(t)
    \/ GetModelCheck(t)
    \/ LoadModel(t)
    \/ GetModelReturn(t)
    \/ \E found \in SearchResults(args[t].n) : Search(t, found)
    \/ Return(t)

Call(t) == \E q \in Queries, level \in LevelInputs, n \in 1..MaxN : FetchBegin(t, q, level, n)

\* requests served by the thread pool: calls overlap freely
Next == \E t \in Threads : Call(t) \/ Step(t)

Spec == Init /\ [][Next]_vars

\* one request at a time: a call starts only when no other is in progress
NextSeq ==
    \E t \in Threads :
        \/ (\A u \in Threads : pc[u] = "idle") /\ Call(t)
        \/ Step(t)

SeqSpec == SeqInit /\ [][NextSeq]_vars

\* ============================================================ claims
\* the names the backend's enumeration gave the call (none when the listing
\* method is missing or raised)
Reported == IF db.api \in {"table_names", "list_tables"} THEN db.names ELSE <<>>

Canonical(t) == args[t].level \o Suffix

AfterOpening == {"get_model", "load_model", "model_return", "search", "not_found", "done"}

\* C1: a call with a level outside {A1, A2, B1, B2} ends at once with the
\* invalid-level error; that call connects to nothing, enumerates nothing,
\* opens no table and loads no model, and the step that makes it leaves the
\* model slot and the count of constructed models as they were.
C1_InvalidLevelNoIO ==
    /\ [](\A t \in Threads :
            (pc[t] # "idle" /\ args[t].level \notin {A1, A2, B1, B2}) =>
                /\ pc[t] = "done"
                /\ ret[t] = Raised(ValueError)
                /\ io[t] = NoIO)
    /\ [][\A t \in Threads :
            (pc[t] = "idle" /\ pc'[t] # "idle"
               /\ args'[t].level \notin {A1, A2, B1, B2}) =>
                (model_slot' = model_slot /\ constructions' = constructions /\ db' = db)]_vars

C1_Witness ==
    \E t \in Threads :
        /\ pc[t] = "done"
        /\ args[t].level = <<"a", "1">>
        /\ ret[t].error.type = "ValueError"
        /\ model_slot = 1

\* C2: however first calls overlap, the embedding model is constructed
\* exactly once: never do two callers both find the slot empty and both
\* construct a model.
C2_ConstructedOnce == constructions <= 1

\* C3: once a call for a level has returned its list, no later call for that
\* level connects, enumerates tables or opens a table again.
C3_HandleReused ==
    [][\A t \in Threads :
         args'[t].level \in served =>
             /\ io'[t].connects <= io[t].connects
             /\ io'[t].enums <= io[t].enums
             /\ Len(io'[t].opens) <= Len(io[t].opens)]_vars

\* C4: when the enumeration reports "A1_MINIMAL_vocabulary" and only
\* "a1_minimal.csv" can be opened, a call for A1 still obtains a table and
\* raises no table-not-found error.
C4_FallbackToLoaderName ==
    \A t \in Threads :
        ( /\ Reported = <<DbNameOf(A1)>>
          /\ db.openable = {CsvNameOf(A1)}
          /\ args[t].level = A1
          /\ pc[t] \in {"not_found", "done"} ) =>
            /\ loc[t].table # NoName
            /\ ret[t].error.what # "table"

\* C5: the name of the first open_table call is the canonical name when the
\* reported list holds it verbatim; else the first reported name equal to it
\* ignoring case; else (no such name, an empty list, no listing method or a
\* listing that raised) the canonical name.
C5_FirstOpenName ==
    \A t \in Threads :
        io[t].opens # <<>> =>
            LET first == io[t].opens[1]
                canon == Canonical(t)
                same == {i \in 1..Len(Reported) : Lower(Reported[i]) = Lower(canon)}
            IN  /\ canon \in Range(Reported) => first = canon
                /\ (canon \notin Range(Reported) /\ same # {}) =>
                       \E i \in same : first = Reported[i] /\ \A j \in same : i <= j
                /\ same = {} => first = canon

C5_Witness ==
    \E t \in Threads :
        /\ db.names = << <<"a", "1">> \o Suffix, Lower(DbNameOf(A1)) >>
        /\ io[t].opens # <<>>
        /\ io[t].opens[1] = <<"a", "1">> \o Suffix

\* C6: one call opens at most twice; it opens a second time only after the
\* first open failed on a name the enumeration reported, and then with the
\* canonical name; a first name the enumeration did not report is opened
\* exactly once.
C6_BoundedRetry ==
    \A t \in Threads :
        LET opens == io[t].opens
        IN  /\ Len(opens) <= 2
            /\ Len(opens) = 2 =>
                   /\ opens[1] \notin db.openable
                   /\ opens[1] \in Range(Reported)
                   /\ opens[2] = Canonical(t)
            /\ (pc[t] \in AfterOpening /\ loc[t].table_name_to_use # NoName
                  /\ loc[t].table_name_to_use \notin Range(Reported)) =>
                   Len(opens) = 1

C6_Witness ==
    \E t \in Threads :
        /\ Len(io[t].opens) = 2
        /\ io[t].opens[1] # io[t].opens[2]
        /\ loc[t].table = DbNameOf(A1)

\* C7: when every open of a call failed, the call ends with the
\* table-not-found error naming each attempted name, the reported table list
\* (when there is one) and the storage path; it runs no search, returns no
\* list, and the storage is never changed.
C7_NotFoundIsHard ==
    /\ [](\A t \in Threads :
            ( /\ pc[t] \in AfterOpening
              /\ io[t].opens # <<>>
              /\ \A i \in 1..Len(io[t].opens) : io[t].opens[i] \notin db.openable ) =>
                /\ pc[t] \in {"not_found", "done"}
                /\ io[t].searches = 0
                /\ ret[t].status # "ok"
                /\ pc[t] = "done" =>
                     /\ ret[t].status = "raised"
                     /\ ret[t].error.type = "FileNotFoundError"
                     /\ ret[t].error.what = "table"
                     /\ \A i \in 1..Len(io[t].opens) :
                            io[t].opens[i] \in Range(ret[t].error.tried)
                     /\ Reported # <<>> => ret[t].error.api_tables = Reported
                     /\ ret[t].error.db_path = DbPath)
    /\ [][db' = db]_vars

C7_Witness ==
    \E t \in Threads :
        /\ pc[t] = "done"
        /\ Len(io[t].opens) = 2
        /\ io[t].opens[1] # io[t].opens[2]
        /\ ret[t].error.what = "table"
        /\ ret[t].error.api_tables # <<>>

\* the hits of a call that searched, each with a german_term that is a word
AllUsable(rows) == \A i \in 1..Len(rows) : rows[i].german_term \in {"Brot", "Bus"}

\* C8: a call whose search returned k hits, each with a usable term, returns
\* min(n, k) terms: the hits' terms in the hits' order, nothing added.
C8_PrefixInOrder ==
    \A t \in Threads :
        (pc[t] = "done" /\ io[t].searches = 1
           /\ HasColumns(loc[t].results, <<"german_term">>)
           /\ AllUsable(loc[t].results.rows)) =>
            LET hits == loc[t].results.rows
                m == Min(args[t].n, Len(hits))
            IN  /\ ret[t].status = "ok"
                /\ Len(ret[t].value) = m
                /\ \A i \in 1..m : ret[t].value[i] = hits[i].german_term

C8_Witness ==
    \E t \in Threads :
        /\ pc[t] = "done"
        /\ args[t].n = 2
        /\ ret[t].status = "ok"
        /\ ret[t].value = <<"Bus">>

\* C9: a hit without a usable term is skipped: the call still returns, and
\* returns the usable terms of the other hits in order, with no entry for
\* the hit that had none.
C9_UnusableHitSkipped ==
    \A t \in Threads :
        (pc[t] = "done" /\ io[t].searches = 1) =>
            /\ ret[t].status = "ok"
            /\ \A i \in 1..Len(ret[t].value) : ret[t].value[i] \in {"Brot", "Bus"}

\* C10: with calls one after another, for any levels, at most one model is
\* ever constructed: a call loads only while none was constructed, every
\* call that searches uses that first instance, and the slot, once set, is
\* never reset or replaced.
C10_ModelConstructedOnce ==
    /\ [](/\ constructions <= 1
          /\ \A t \in Threads :
               /\ pc[t] = "load_model" => (constructions = 0 /\ model_slot = 0)
               /\ (pc[t] = "search" \/ io[t].searches = 1) =>
                      (loc[t].model = 1 /\ model_slot = 1))
    /\ [][model_slot # 0 => model_slot' = model_slot]_vars

C10_Witness ==
    \E t \in Threads :
        /\ pc[t] = "search"
        /\ args[t].level = B1
        /\ A1 \in served
        /\ io[t].loads = 0
        /\ loc[t].model = 1

\* C11: a call reaches the model only with its table opened: a call that
\* ends with the invalid-level error, the missing-directory error or the
\* table-not-found error has loaded nothing, and the model slot changes only
\* in the load step of a call that holds an opened table, so such a failing
\* call leaves the slot as it found it.
C11_ModelAfterOpen ==
    /\ [](\A t \in Threads :
            /\ ( \/ pc[t] \in {"get_model", "load_model", "model_return", "search"}
                 \/ io[t].loads > 0
                 \/ loc[t].model # 0 ) =>
                   /\ loc[t].table # NoName
                   /\ loc[t].table \in db.openable
                   /\ loc[t].table = io[t].opens[Len(io[t].opens)]
            /\ ( /\ pc[t] = "done"
                 /\ ret[t].error.type \in {"ValueError", "FileNotFoundError"} ) =>
                   /\ io[t].loads = 0
                   /\ loc[t].model = 0)
    /\ [][model_slot' # model_slot =>
            \E t \in Threads :
                /\ pc[t] = "load_model"
                /\ io'[t].loads = io[t].loads + 1
                /\ loc[t].table \in db.openable]_vars

C11_Witness ==
    \E t \in Threads :
        /\ pc[t] = "done"
        /\ args[t].level = B1
        /\ ret[t].error.what = "table"
        /\ A1 \in served
        /\ model_slot = 1
        /\ io[t].loads = 0

====
